---- MODULE Spec2Model ----
(***************************************************************************)
(* Model of deepchem/models/torch_models/gan.py: the GAN module (its       *)
(* construction and forward pass), the GANModel.fit_gan training loop and  *)
(* GANModel.predict_gan_generator.                                         *)
(*                                                                         *)
(* Floating point.  gen_train_fraction and generator_steps are Python      *)
(* floats (IEEE-754 binary64).  A non-negative double below 4.0 that is 0  *)
(* or at least 2^-4 is written as an integer count n of units of 2^-56,    *)
(* kept as two limbs [hi, lo] with n = hi * Limb + lo, Limb = 2^28, so the *)
(* arithmetic stays inside 32-bit integers.  Addition is the exact sum     *)
(* rounded to 53 significant bits, ties to even, as the hardware does.     *)
(***************************************************************************)
EXTENDS Integers, Naturals, Sequences, FiniteSets, TLC

\* ------------------------------------------------------------------ bounds
MaxGen == 2
MaxDisc == 2
MaxBatches == 10
MaxInterval == 2
NetParams == 1
MaxSamples == 2
MaxPredicts == 1
MaxRepeats == 1
MaxCondInputs == 1
MaxRestoredStep == 2

\* --------------------------------------------------------------- binary64
Limb == 268435456

\* The spacing (in units of 2^-56) of the doubles around hi * 2^-28: a value
\* below 2^-3 has hi < 2^25 and every unit count is a double; each doubling
\* of the value doubles the spacing.
RECURSIVE Ulp(_)
Ulp(hi) == IF hi < 33554432 THEN 1 ELSE 2 * Ulp(hi \div 2)

\* Round the exact value hi * Limb + lo to the nearest double, ties to even.
RoundDouble(hi, lo) ==
    LET q == Ulp(hi)
        rem == lo % q
        base == lo - rem
        up == \/ 2 * rem > q
              \/ (2 * rem = q /\ (base \div q) % 2 = 1)
        lo2 == IF up THEN base + q ELSE base
    IN  IF lo2 = Limb THEN [hi |-> hi + 1, lo |-> 0]
                      ELSE [hi |-> hi, lo |-> lo2]

\* a + b in binary64 (both non-negative)
FAdd(a, b) ==
    LET s == a.lo + b.lo
    IN  RoundDouble(a.hi + b.hi + s \div Limb, s % Limb)

\* The carried fraction is cleared instead of reduced by one
MutFSubOneClears(a) == [hi |-> 0, lo |-> 0]

\* a - 1.0 in binary64, for a >= 1.0
FSubOne(a) == RoundDouble(a.hi - Limb, a.lo)

\* a >= 1.0
FGeOne(a) == a.hi >= Limb

FZero == [hi |-> 0, lo |-> 0]

\* The values of generator_steps tried.  neg: the sign; hi, lo: the double the
\* literal denotes; num / den: the decimal value the caller wrote.
\*   -0.5, 0.0, 0.1, 0.5, 1.5, 2.0
StepChoices ==
    { [neg |-> TRUE,  hi |-> 134217728, lo |-> 0,         num |-> 1, den |-> 2],
      [neg |-> FALSE, hi |-> 0,         lo |-> 0,         num |-> 0, den |-> 1],
      [neg |-> FALSE, hi |-> 26843545,  lo |-> 161061274, num |-> 1, den |-> 10],
      [neg |-> FALSE, hi |-> 134217728, lo |-> 0,         num |-> 1, den |-> 2],
      [neg |-> FALSE, hi |-> 402653184, lo |-> 0,         num |-> 3, den |-> 2],
      [neg |-> FALSE, hi |-> 536870912, lo |-> 0,         num |-> 2, den |-> 1] }

\* generator_steps > 0.0
FPositive(r) == ~r.neg /\ (r.hi > 0 \/ r.lo > 0)

\* ------------------------------------------------------------- rationals
\* Mixture weights are positive rationals <<numerator, denominator>> in
\* lowest terms.
RECURSIVE Gcd(_, _)
Gcd(a, b) == IF b = 0 THEN a ELSE Gcd(b, a % b)

Rat(n, d) == LET g == Gcd(n, d) IN <<n \div g, d \div g>>
RMul(a, b) == Rat(a[1] * b[1], a[2] * b[2])
RAdd(a, b) == Rat(a[1] * b[2] + b[1] * a[2], a[2] * b[2])

RECURSIVE RSum(_)
RSum(s) == IF s = <<>> THEN <<0, 1>> ELSE RAdd(Head(s), RSum(Tail(s)))

RECURSIVE Sum(_)
Sum(s) == IF s = <<>> THEN 0 ELSE Head(s) + Sum(Tail(s))

\* ------------------------------------------------------- GAN (nn.Module)
\* One entry of a ParameterList.  kind "generator" / "discriminator": the
\* id-th parameter of sub-model net; kind "gen_alpha" / "discrim_alpha": the
\* mixture logits created by the id-th call of forward.
Param(kind, net, id) == [kind |-> kind, net |-> net, id |-> id]

\* list(net.parameters()) of sub-model number net
NetParameters(kind, net) == [p \in 1..NetParams |-> Param(kind, net, p)]

RECURSIVE AllParameters(_, _)
AllParameters(kind, n) ==
    IF n = 0 THEN <<>>
    ELSE AllParameters(kind, n - 1) \o NetParameters(kind, n - 1)

\* The discriminators' list also collects the first generator's parameters
MutInitDiscrimVariablesWithGenerator(m) ==
    AllParameters("discriminator", m) \o NetParameters("generator", 0)

\* GAN.__init__: the two variable lists right after construction
InitGenVariables(n) == AllParameters("generator", n)

InitDiscrimVariables(m) == AllParameters("discriminator", m)

\* The output of discriminator i on the training data (real) or on the output
\* of generator gen; a symbol, the networks being supplied by the user.
CallDiscriminator(i, real, gen) == [disc |-> i, real |-> real, gen |-> gen]

\* -mean(log(discrim_output + 1e-10)), as a symbol of its argument
CreateGeneratorLoss(discrim_output) ==
    [loss |-> "generator", train |-> discrim_output, gen |-> discrim_output]

\* -mean(log(train + 1e-10) + log(1 - gen + 1e-10)), as a symbol
CreateDiscriminatorLoss(discrim_output_train, discrim_output_gen) ==
    [loss |-> "discriminator", train |-> discrim_output_train,
     gen |-> discrim_output_gen]

\* The two loops are nested the other way round: index j * m + i
MutDiscrimGenOutputsGeneratorMajor(n, m) ==
    [k \in 1..(n * m) |-> CallDiscriminator((k - 1) % m, FALSE, (k - 1) \div m)]

\* discrim_gen_outputs: for disc in discriminators for gen_output in
\* generator_outputs; Python index k - 1 = i * n_generators + j
DiscrimGenOutputs(n, m) ==
    [k \in 1..(n * m) |-> CallDiscriminator((k - 1) \div n, FALSE, (k - 1) % n)]

DiscrimTrainOutputs(m) == [k \in 1..m |-> CallDiscriminator(k - 1, TRUE, 0)]

GenLosses(n, m) ==
    [k \in 1..(n * m) |-> CreateGeneratorLoss(DiscrimGenOutputs(n, m)[k])]

\* for i in range(n_discriminators) for j in range(n_generators)
DiscrimLosses(n, m) ==
    [k \in 1..(n * m) |->
        LET i == (k - 1) \div n
            j == (k - 1) % n
        IN  CreateDiscriminatorLoss(DiscrimTrainOutputs(m)[i + 1],
                                    DiscrimGenOutputs(n, m)[(i * n) + j + 1])]

\* torch.ones(1, n)
Ones(n) == [k \in 1..n |-> 1]

\* exp, of which softmax only uses that it is positive: 2^x stands for e^x
RECURSIVE Exp(_)
Exp(x) == IF x = 0 THEN 1 ELSE 2 * Exp(x - 1)

\* softmax over dim=0 of a tensor of shape (1, n): every weight is 1
MutSoftmaxWrongDim(alpha) == [k \in 1..Len(alpha) |-> <<1, 1>>]

\* torch.softmax(alpha, dim=1)
Softmax(alpha) ==
    LET e == [k \in 1..Len(alpha) |-> Exp(alpha[k])]
    IN  [k \in 1..Len(alpha) |-> Rat(e[k], Sum(e))]

\* torch.mul(discrim_weights.view(-1, m, 1), gen_weights.view(-1, 1, n))
\* .view(-1, n * m): entry i * n + j is discrim_weights[i] * gen_weights[j]
WeightProducts(gen_weights, discrim_weights) ==
    LET n == Len(gen_weights)
        m == Len(discrim_weights)
    IN  [k \in 1..(n * m) |->
            RMul(discrim_weights[((k - 1) \div n) + 1],
                 gen_weights[((k - 1) % n) + 1])]

\* torch.sum(stacked_loss * weight_products), as the list of its terms
WeightedSum(losses, weights) ==
    [k \in 1..Len(losses) |->
        [loss |-> losses[k], weighted |-> TRUE, weight |-> weights[k]]]

\* The branch of forward taken for one generator and one discriminator
ForwardSingle(gan, call) ==
    [gen_variables |-> gan.gen_variables,
     discrim_variables |-> gan.discrim_variables,
     gen_losses |-> GenLosses(1, 1),
     discrim_losses |-> DiscrimLosses(1, 1),
     mixture |-> FALSE,
     gen_alpha |-> 0,
     discrim_alpha |-> 0,
     gen_weights |-> <<>>,
     discrim_weights |-> <<>>,
     weight_products |-> <<>>,
     total_gen_loss |->
        [terms |-> << [loss |-> GenLosses(1, 1)[1], weighted |-> FALSE,
                       weight |-> <<1, 1>>] >>,
         entropy |-> FALSE],
     total_discrim_loss |->
        [terms |-> << [loss |-> DiscrimLosses(1, 1)[1], weighted |-> FALSE,
                       weight |-> <<1, 1>>] >>,
         entropy |-> FALSE]]

\* The MIX+GAN branch of forward; call numbers the call, and so names the
\* nn.Parameter objects it creates
ForwardMixture(gan, call) ==
    LET n == gan.n_generators
        m == gan.n_discriminators
        gen_alpha == Ones(n)
        gen_weights == Softmax(gen_alpha)
        discrim_alpha == Ones(m)
        discrim_weights == Softmax(discrim_alpha)
        weight_products == WeightProducts(gen_weights, discrim_weights)
    IN  [gen_variables |->
            Append(gan.gen_variables, Param("gen_alpha", 0, call)),
         discrim_variables |->
            gan.discrim_variables \o << Param("gen_alpha", 0, call),
                                        Param("discrim_alpha", 0, call) >>,
         gen_losses |-> GenLosses(n, m),
         discrim_losses |-> DiscrimLosses(n, m),
         mixture |-> TRUE,
         gen_alpha |-> call,
         discrim_alpha |-> call,
         gen_weights |-> gen_weights,
         discrim_weights |-> discrim_weights,
         weight_products |-> weight_products,
         total_gen_loss |->
            [terms |-> WeightedSum(GenLosses(n, m), weight_products),
             entropy |-> FALSE],
         total_discrim_loss |->
            [terms |-> WeightedSum(DiscrimLosses(n, m), weight_products),
             entropy |-> TRUE]]

\* forward without the special case for one generator and one discriminator
MutForwardAlwaysMixture(gan, call) == ForwardMixture(gan, call)

\* GAN.forward: the variable lists after the call and what it computed
Forward(gan, call) ==
    IF gan.n_generators = 1 /\ gan.n_discriminators = 1
    THEN ForwardSingle(gan, call)
    ELSE ForwardMixture(gan, call)

\* ------------------------------------------------- predict_gan_generator
\* NumPy float64 values in [1, 2), written as counts of 2^-25: 1 + 2^-25,
\* which no float32 holds, and 1 + 2^-23, the float32 after 1.0
NoiseVals == {33554433, 33554436}

\* The values of a conditional input passed to predict_gan_generator
PredictCondVals == {33554433}

\* x.astype(np.float32) of one value in [1, 2): float32 has 23 fraction bits,
\* so the value is rounded to a multiple of 4 units, ties to even
Float32(x) ==
    LET rem == x % 4
        base == x - rem
    IN  IF 2 * rem > 4 \/ (2 * rem = 4 /\ (base \div 4) % 2 = 1)
        THEN base + 4 ELSE base

\* i.astype(np.float32) of an array
AsType32(a) == [k \in 1..Len(a) |-> Float32(a[k])]

\* All arrays of length n over S
Arrays(S, n) == [1..n -> S]

\* batch_size is never overridden by the explicit inputs
MutPredictBatchSizeKept(batch_size, noise_given, noise_input, conditional_inputs) ==
    batch_size

\* lines 639-642: the batch size predict_gan_generator works with
PredictBatchSize(batch_size, noise_given, noise_input, conditional_inputs) ==
    IF noise_given THEN Len(noise_input)
    ELSE IF Len(conditional_inputs) > 0 THEN Len(conditional_inputs[1])
    ELSE batch_size

\* _list_or_tensor
ListOrTensor(ins) == IF Len(ins) = 1 THEN ins[1] ELSE ins

\* generators[index], its parameters being in the state weights, applied to
\* its input: one sample per row of noise
GeneratorOutput(index, weights, ins) ==
    [generator |-> index, weights |-> weights, input |-> ListOrTensor(ins),
     samples |-> Len(ins[1])]

NoPredict ==
    [calls |-> 0,
     batch_size |-> 0, noise_given |-> FALSE, noise_input |-> <<>>,
     conditional_inputs |-> <<>>, generator_index |-> 0,
     drew |-> FALSE, drawn |-> <<>>, fed |-> <<>>,
     pred |-> GeneratorOutput(0, 0, << <<>> >>)]

\* ----------------------------------------------------------------- state
VARIABLES
    \* the GAN module and the TorchModel around it
    n_generators, n_discriminators,
    gen_variables, discrim_variables,   \* the two ParameterLists
    gen_updates, discrim_updates,       \* optimizer updates applied, per net
    forward_calls,                      \* calls of GAN.forward so far
    last_forward,                       \* what the last call computed
    prev_alpha,                         \* gen_alpha of the call before it
    self_global_step,                   \* self._global_step
    restores,                           \* checkpoint restorations performed
    \* the locals of fit_gan
    pc, generator_steps, checkpoint_interval, restore,
    gen_train_fraction, discrim_average_steps, gen_average_steps,
    global_step, inputs, feed_dict,
    \* the record of what fit_gan did
    restore_arg,                        \* restore as fit_gan was called
    batches_yielded,                    \* batches taken from the iterable
    discrim_calls, gen_calls,           \* fit_generator calls, by loss
    last_call,                          \* arguments of the last one
    noise_draws,                        \* calls of get_noise_batch
    loop_saves, final_saves,            \* save_checkpoint calls, by place
    saved,                              \* the last batch ended with a save
    \* predict_gan_generator
    last_predict,                       \* arguments and result of the last call
    prev_predict,                       \* the call before it, if it had the
                                        \* same arguments
    overridden,                         \* the methods the subclass overrides
    construction                        \* how GANModel.__init__ ended

ganVars == << n_generators, n_discriminators, gen_variables, discrim_variables,
              gen_updates, discrim_updates, forward_calls, last_forward,
              prev_alpha, self_global_step, restores >>
fitVars == << pc, generator_steps, checkpoint_interval, restore,
              gen_train_fraction, discrim_average_steps, gen_average_steps,
              global_step, inputs, feed_dict >>
logVars == << restore_arg, batches_yielded, discrim_calls, gen_calls,
              last_call, noise_draws, loop_saves, final_saves, saved >>
predictVars == << last_predict, prev_predict >>
constructVars == << overridden, construction >>
vars == << ganVars, fitVars, logVars, predictVars, constructVars >>

\* The values a data or conditional input takes
DataVals == {"x0", "x1"}
CondVals == {"c0", "c1"}

\* The batches the iterable may yield: each maps the data input and the
\* conditional input to a value
Batches == { [data |-> "x0", cond |-> "c0"], [data |-> "x1", cond |-> "c1"] }

NoInputs == [noise |-> 0, data |-> "x0", cond |-> "c0"]
NoCall == [loss |-> "none", variables |-> <<>>, checkpoint_interval |-> 0,
           restore |-> FALSE, inputs |-> NoInputs]

\* The methods a subclass of GANModel may override
Methods == {"get_noise_input_shape", "get_data_input_shapes",
            "get_conditional_input_shapes", "create_generator",
            "create_discriminator"}

\* The calls GANModel.__init__ makes to these methods, in the order it makes
\* them: the three shapes as the arguments of GAN(...) are evaluated, then in
\* GAN.__init__ one create_generator per generator and one
\* create_discriminator per discriminator
ConstructorCalls(n, m) ==
    << "get_noise_input_shape", "get_data_input_shapes",
       "get_conditional_input_shapes" >>
    \o [i \in 1..n |-> "create_generator"]
    \o [i \in 1..m |-> "create_discriminator"]

\* Every default raises, get_conditional_input_shapes too
MutEveryDefaultRaises(method) == TRUE

\* GANModel's own body of the method raises NotImplementedError; that of
\* get_conditional_input_shapes returns []
RaisesNotImplemented(method) == method # "get_conditional_input_shapes"

\* The position in calls of the first call that raises, 0 if none does
FirstFailure(over, calls) ==
    LET fails(k) == calls[k] \notin over /\ RaisesNotImplemented(calls[k])
    IN  IF \E k \in 1..Len(calls) : fails(k)
        THEN CHOOSE k \in 1..Len(calls) :
                fails(k) /\ \A j \in 1..(k - 1) : ~fails(j)
        ELSE 0

\* The number of calls of method among the first k of calls
CallsMade(calls, k, method) ==
    Cardinality({j \in 1..k : calls[j] = method})

NotConstructed ==
    [error |-> "none", raised_in |-> "none", calls_made |-> 0,
     generators_created |-> 0, discriminators_created |-> 0,
     n_conditional |-> 0, torch_model_init |-> FALSE]

\* __init__ returned: every call was made, conditional inputs of c shapes
Constructed(n, m, c) ==
    [error |-> "none", raised_in |-> "none", calls_made |-> 3 + n + m,
     generators_created |-> n, discriminators_created |-> m,
     n_conditional |-> c, torch_model_init |-> TRUE]

\* __init__ was left by the NotImplementedError of call k
Raised(calls, k) ==
    [error |-> "NotImplementedError", raised_in |-> calls[k],
     calls_made |-> k,
     generators_created |-> CallsMade(calls, k - 1, "create_generator"),
     discriminators_created |-> CallsMade(calls, k - 1, "create_discriminator"),
     n_conditional |-> 0, torch_model_init |-> FALSE]

\* GANModel.__init__ with n generators and m discriminators
Construct(n, m) ==
    /\ n_generators = n
    /\ n_discriminators = m
    /\ gen_variables = InitGenVariables(n)
    /\ discrim_variables = InitDiscrimVariables(m)
    /\ gen_updates = [i \in 0..(n - 1) |-> 0]
    /\ discrim_updates = [i \in 0..(m - 1) |-> 0]
    /\ forward_calls = 0
    /\ last_forward = ForwardSingle([gen_variables |-> <<>>,
                                     discrim_variables |-> <<>>], 0)
    /\ prev_alpha = 0
    /\ self_global_step = 0
    /\ restores = 0

Init ==
    /\ \E n \in 1..MaxGen, m \in 1..MaxDisc :
          /\ Construct(n, m)
          /\ construction = Constructed(n, m, 1)
    /\ overridden = Methods
    /\ pc = "idle"
    /\ generator_steps = [neg |-> FALSE, hi |-> 0, lo |-> 0, num |-> 0, den |-> 1]
    /\ checkpoint_interval = 0
    /\ restore = FALSE
    /\ gen_train_fraction = FZero
    /\ discrim_average_steps = 0
    /\ gen_average_steps = 0
    /\ global_step = 0
    /\ inputs = NoInputs
    /\ feed_dict = [data |-> "x0", cond |-> "c0"]
    /\ restore_arg = FALSE
    /\ batches_yielded = 0
    /\ discrim_calls = 0
    /\ gen_calls = 0
    /\ last_call = NoCall
    /\ noise_draws = 0
    /\ loop_saves = 0
    /\ final_saves = 0
    /\ saved = FALSE
    /\ last_predict = NoPredict
    /\ prev_predict = NoPredict

\* The number of optimizer updates after a step over the list variables:
\* every sub-model parameter of kind kind in the list is updated once.
Updated(updates, variables, kind) ==
    [i \in DOMAIN updates |->
        IF \E k \in 1..Len(variables) :
              variables[k].kind = kind /\ variables[k].net = i
        THEN updates[i] + 1 ELSE updates[i]]

\* TorchModel.fit_generator on the single batch (inp, [], []): restore the
\* latest checkpoint if asked, and with it the global step it was saved at,
\* run the model forward, take one optimizer step over variables and count
\* one global step.
FitGenerator(inp, variables, loss, interval, rst) ==
    LET fw == Forward([n_generators |-> n_generators,
                       n_discriminators |-> n_discriminators,
                       gen_variables |-> gen_variables,
                       discrim_variables |-> discrim_variables],
                      forward_calls + 1)
    IN  /\ restores' = IF rst THEN restores + 1 ELSE restores
        /\ forward_calls' = forward_calls + 1
        /\ prev_alpha' = last_forward.gen_alpha
        /\ last_forward' = fw
        /\ gen_variables' = fw.gen_variables
        /\ discrim_variables' = fw.discrim_variables
        /\ gen_updates' = Updated(gen_updates, variables, "generator")
        /\ discrim_updates' = Updated(discrim_updates, variables, "discriminator")
        /\ \E step \in (IF rst THEN 0..MaxRestoredStep ELSE {self_global_step}) :
              self_global_step' = step + 1
        /\ last_call' = [loss |-> loss, variables |-> variables,
                         checkpoint_interval |-> interval, restore |-> rst,
                         inputs |-> inp]
        /\ discrim_calls' = IF loss = "discrim_loss_fn_wrapper"
                            THEN discrim_calls + 1 ELSE discrim_calls
        /\ gen_calls' = IF loss = "gen_loss_fn_wrapper"
                        THEN gen_calls + 1 ELSE gen_calls
        /\ UNCHANGED << n_generators, n_discriminators >>

\* fit_gan is entered: lines 516-523
FitGan ==
    /\ UNCHANGED << predictVars, constructVars >>
    /\ pc = "idle"
    /\ \E r \in StepChoices, c \in 0..MaxInterval, rst \in BOOLEAN :
          /\ generator_steps' = r
          /\ checkpoint_interval' = c
          /\ restore' = rst
          /\ restore_arg' = rst
    /\ gen_train_fraction' = FZero
    /\ discrim_average_steps' = 0
    /\ gen_average_steps' = 0
    /\ pc' = "loop"
    /\ UNCHANGED << ganVars, global_step, inputs, feed_dict, batches_yielded,
                    discrim_calls, gen_calls, last_call, noise_draws,
                    loop_saves, final_saves, saved >>

\* The body of the for loop up to the generator's while loop, lines 525-569,
\* with the discriminator step of lines 557-563 left open
BatchStart(discriminator_step) ==
    /\ UNCHANGED << predictVars, constructVars >>
    /\ pc = "loop"
    /\ batches_yielded < MaxBatches
    /\ batches_yielded' = batches_yielded + 1
    /\ feed_dict' \in Batches
    /\ global_step' = self_global_step
    /\ noise_draws' = noise_draws + 1
    \* temp_data and temp_cond are torch.randn tensors
    /\ \E temp_data \in DataVals, temp_cond \in CondVals :
          inputs' = [noise |-> noise_draws + 1, data |-> temp_data,
                     cond |-> temp_cond]
    /\ discriminator_step
    /\ discrim_average_steps' = discrim_average_steps + 1
    /\ gen_train_fraction' =
          IF FPositive(generator_steps)
          THEN FAdd(gen_train_fraction, generator_steps)
          ELSE gen_train_fraction
    /\ pc' = "gen"
    /\ UNCHANGED << generator_steps, checkpoint_interval, gen_average_steps,
                    restore_arg, loop_saves, final_saves, saved >>

\* The discriminator step trains the generator's variables with the
\* generator's loss
MutTrainDiscriminatorWrongNet ==
    BatchStart(/\ FitGenerator(inputs', gen_variables, "gen_loss_fn_wrapper",
                               0, restore)
               /\ restore' = FALSE)

\* restore is not cleared after the first discriminator step
MutTrainDiscriminatorKeepsRestore ==
    BatchStart(/\ FitGenerator(inputs', discrim_variables,
                               "discrim_loss_fn_wrapper", 0, restore)
               /\ restore' = restore)

\* The iterable yields a batch and the discriminator is trained on it:
\* lines 525-569
TrainDiscriminator ==
    BatchStart(/\ FitGenerator(inputs', discrim_variables,
                               "discrim_loss_fn_wrapper", 0, restore)
               /\ restore' = FALSE)

\* The generator step reuses the noise of the step before it
MutTrainGeneratorReusesNoise ==
    /\ UNCHANGED << predictVars, constructVars >>
    /\ pc = "gen"
    /\ FPositive(generator_steps)
    /\ FGeOne(gen_train_fraction)
    /\ UNCHANGED << noise_draws, inputs >>
    /\ FitGenerator(inputs, gen_variables, "gen_loss_fn_wrapper", 0, FALSE)
    /\ gen_average_steps' = gen_average_steps + 1
    /\ gen_train_fraction' = FSubOne(gen_train_fraction)
    /\ UNCHANGED << pc, generator_steps, checkpoint_interval, restore,
                    discrim_average_steps, global_step, feed_dict, restore_arg,
                    batches_yielded, loop_saves, final_saves, saved >>

\* One turn of the while loop: lines 570-580
TrainGenerator ==
    /\ UNCHANGED << predictVars, constructVars >>
    /\ pc = "gen"
    /\ FPositive(generator_steps)
    /\ FGeOne(gen_train_fraction)
    /\ noise_draws' = noise_draws + 1
    /\ inputs' = [inputs EXCEPT !.noise = noise_draws + 1]
    /\ FitGenerator(inputs', gen_variables, "gen_loss_fn_wrapper", 0, FALSE)
    /\ gen_average_steps' = gen_average_steps + 1
    /\ gen_train_fraction' = FSubOne(gen_train_fraction)
    /\ UNCHANGED << pc, generator_steps, checkpoint_interval, restore,
                    discrim_average_steps, global_step, feed_dict, restore_arg,
                    batches_yielded, loop_saves, final_saves, saved >>

\* The global step is left as the inner fit_generator calls counted it
MutEndOfBatchKeepsStep ==
    /\ UNCHANGED << predictVars, constructVars >>
    /\ pc = "gen"
    /\ ~(FPositive(generator_steps) /\ FGeOne(gen_train_fraction))
    /\ UNCHANGED self_global_step
    /\ IF discrim_average_steps = checkpoint_interval
       THEN /\ loop_saves' = loop_saves + 1
            /\ saved' = TRUE
            /\ discrim_average_steps' = 0
            /\ gen_average_steps' = 0
       ELSE /\ saved' = FALSE
            /\ UNCHANGED << loop_saves, discrim_average_steps,
                            gen_average_steps >>
    /\ pc' = "loop"
    /\ UNCHANGED << n_generators, n_discriminators, gen_variables,
                    discrim_variables, gen_updates, discrim_updates,
                    forward_calls, last_forward, prev_alpha, restores,
                    generator_steps, checkpoint_interval, restore,
                    gen_train_fraction, global_step, inputs, feed_dict,
                    restore_arg, batches_yielded, discrim_calls, gen_calls,
                    last_call, noise_draws, final_saves >>

\* The per-interval counters are not reset after a checkpoint
MutEndOfBatchNoReset ==
    /\ UNCHANGED << predictVars, constructVars >>
    /\ pc = "gen"
    /\ ~(FPositive(generator_steps) /\ FGeOne(gen_train_fraction))
    /\ self_global_step' = global_step + 1
    /\ IF discrim_average_steps = checkpoint_interval
       THEN /\ loop_saves' = loop_saves + 1
            /\ saved' = TRUE
       ELSE /\ saved' = FALSE
            /\ UNCHANGED loop_saves
    /\ pc' = "loop"
    /\ UNCHANGED << n_generators, n_discriminators, gen_variables,
                    discrim_variables, gen_updates, discrim_updates,
                    forward_calls, last_forward, prev_alpha, restores,
                    generator_steps, checkpoint_interval, restore,
                    gen_train_fraction, discrim_average_steps,
                    gen_average_steps, global_step, inputs, feed_dict,
                    restore_arg, batches_yielded, discrim_calls, gen_calls,
                    last_call, noise_draws, final_saves >>

\* The batch ends: lines 581-595
EndOfBatch ==
    /\ UNCHANGED << predictVars, constructVars >>
    /\ pc = "gen"
    /\ ~(FPositive(generator_steps) /\ FGeOne(gen_train_fraction))
    /\ self_global_step' = global_step + 1
    /\ IF discrim_average_steps = checkpoint_interval
       THEN /\ loop_saves' = loop_saves + 1
            /\ saved' = TRUE
            /\ discrim_average_steps' = 0
            /\ gen_average_steps' = 0
       ELSE /\ saved' = FALSE
            /\ UNCHANGED << loop_saves, discrim_average_steps,
                            gen_average_steps >>
    /\ pc' = "loop"
    /\ UNCHANGED << n_generators, n_discriminators, gen_variables,
                    discrim_variables, gen_updates, discrim_updates,
                    forward_calls, last_forward, prev_alpha, restores,
                    generator_steps, checkpoint_interval, restore,
                    gen_train_fraction, global_step, inputs, feed_dict,
                    restore_arg, batches_yielded, discrim_calls, gen_calls,
                    last_call, noise_draws, final_saves >>

\* The iterable is exhausted: lines 597-608
WriteFinalResults ==
    /\ UNCHANGED << predictVars, constructVars >>
    /\ pc = "loop"
    /\ final_saves' = IF checkpoint_interval > 0 THEN final_saves + 1
                                                 ELSE final_saves
    /\ pc' = "done"
    /\ UNCHANGED << ganVars, generator_steps, checkpoint_interval, restore,
                    gen_train_fraction, discrim_average_steps,
                    gen_average_steps, global_step, inputs, feed_dict,
                    restore_arg, batches_yielded, discrim_calls, gen_calls,
                    last_call, noise_draws, loop_saves, saved >>

\* Noise is drawn whether or not noise_input is given
MutPredictAlwaysDraws(batch_size, noise_given, noise_input, conditional_inputs, generator_index) ==
    LET size == PredictBatchSize(batch_size, noise_given, noise_input,
                                 conditional_inputs)
    IN  \E drawn \in Arrays(NoiseVals, size) :
          LET ins == << drawn >> \o conditional_inputs
              fed == [k \in 1..Len(ins) |-> AsType32(ins[k])]
          IN  /\ noise_draws' = noise_draws + 1
              /\ last_predict' =
                    [calls |-> last_predict.calls + 1,
                     batch_size |-> batch_size, noise_given |-> noise_given,
                     noise_input |-> noise_input,
                     conditional_inputs |-> conditional_inputs,
                     generator_index |-> generator_index,
                     drew |-> TRUE,
                     drawn |-> drawn,
                     fed |-> fed,
                     pred |-> GeneratorOutput(generator_index,
                                             gen_updates[generator_index], fed)]

\* predict_gan_generator(batch_size, noise_input, conditional_inputs,
\* generator_index); noise_given is "noise_input is not None"
Predict(batch_size, noise_given, noise_input, conditional_inputs, generator_index) ==
    LET size == PredictBatchSize(batch_size, noise_given, noise_input,
                                 conditional_inputs)
    IN  \E drawn \in (IF noise_given THEN {<<>>} ELSE Arrays(NoiseVals, size)) :
          LET noise == IF noise_given THEN noise_input ELSE drawn
              ins == << noise >> \o conditional_inputs
              fed == [k \in 1..Len(ins) |-> AsType32(ins[k])]
          IN  /\ noise_draws' = IF noise_given THEN noise_draws
                                               ELSE noise_draws + 1
              /\ last_predict' =
                    [calls |-> last_predict.calls + 1,
                     batch_size |-> batch_size, noise_given |-> noise_given,
                     noise_input |-> noise_input,
                     conditional_inputs |-> conditional_inputs,
                     generator_index |-> generator_index,
                     drew |-> ~noise_given,
                     drawn |-> drawn,
                     fed |-> fed,
                     pred |-> GeneratorOutput(generator_index,
                                             gen_updates[generator_index], fed)]

\* The arguments tried: a batch size, noise or None, no conditional input or
\* one, of the length of the noise when both are given
PredictGanGenerator ==
    /\ pc = "idle"
    /\ last_predict.calls < MaxPredicts
    /\ \E batch_size \in 1..MaxSamples, noise_given \in BOOLEAN,
          len \in 1..MaxSamples, has_cond \in BOOLEAN,
          generator_index \in 0..(n_generators - 1) :
          \E noise_input \in (IF noise_given THEN Arrays(NoiseVals, len)
                                             ELSE {<<>>}),
             cond \in (IF has_cond THEN Arrays(PredictCondVals, len)
                                   ELSE {<<>>}) :
             Predict(batch_size, noise_given, noise_input,
                     IF has_cond THEN << cond >> ELSE <<>>, generator_index)
    /\ prev_predict' = NoPredict
    /\ UNCHANGED constructVars
    /\ UNCHANGED << ganVars, fitVars, restore_arg, batches_yielded,
                    discrim_calls, gen_calls, last_call, loop_saves,
                    final_saves, saved >>

\* predict_gan_generator is called again with the arguments of the last call
PredictAgain ==
    /\ pc = "idle"
    /\ last_predict.calls >= 1
    /\ last_predict.calls < MaxPredicts + MaxRepeats
    /\ Predict(last_predict.batch_size, last_predict.noise_given,
               last_predict.noise_input, last_predict.conditional_inputs,
               last_predict.generator_index)
    /\ prev_predict' = last_predict
    /\ UNCHANGED constructVars
    /\ UNCHANGED << ganVars, fitVars, restore_arg, batches_yielded,
                    discrim_calls, gen_calls, last_call, loop_saves,
                    final_saves, saved >>

Next ==
    \/ FitGan
    \/ TrainDiscriminator
    \/ TrainGenerator
    \/ EndOfBatch
    \/ WriteFinalResults

Spec == Init /\ [][Next]_vars

\* Sampling from the constructed model
\* Before GANModel.__init__ runs: a subclass overriding any set of the
\* methods, and no model yet
InitConstruct ==
    /\ overridden \in SUBSET Methods
    /\ construction = NotConstructed
    /\ Construct(0, 0)
    /\ pc = "new"
    /\ generator_steps = [neg |-> FALSE, hi |-> 0, lo |-> 0, num |-> 0, den |-> 1]
    /\ checkpoint_interval = 0
    /\ restore = FALSE
    /\ gen_train_fraction = FZero
    /\ discrim_average_steps = 0
    /\ gen_average_steps = 0
    /\ global_step = 0
    /\ inputs = NoInputs
    /\ feed_dict = [data |-> "x0", cond |-> "c0"]
    /\ restore_arg = FALSE
    /\ batches_yielded = 0
    /\ discrim_calls = 0
    /\ gen_calls = 0
    /\ last_call = NoCall
    /\ noise_draws = 0
    /\ loop_saves = 0
    /\ final_saves = 0
    /\ saved = FALSE
    /\ last_predict = NoPredict
    /\ prev_predict = NoPredict

\* GANModel.__init__(n_generators, n_discriminators) of the subclass: the
\* counts are stored first; the first call that reaches a default raising
\* NotImplementedError ends it, and no sub-model is kept; otherwise GAN is
\* built and TorchModel.__init__ runs last
GANModelInit ==
    /\ pc = "new"
    /\ \E n \in 1..MaxGen, m \in 1..MaxDisc :
          LET calls == ConstructorCalls(n, m)
              k == FirstFailure(overridden, calls)
          IN  IF k > 0
              THEN /\ construction' = Raised(calls, k)
                   /\ pc' = "raised"
                   /\ n_generators' = n
                   /\ n_discriminators' = m
                   /\ UNCHANGED << gen_variables, discrim_variables,
                                   gen_updates, discrim_updates,
                                   forward_calls, last_forward, prev_alpha,
                                   self_global_step, restores >>
              ELSE /\ \E c \in (IF "get_conditional_input_shapes" \in overridden
                                 THEN 0..MaxCondInputs ELSE {0}) :
                         construction' = Constructed(n, m, c)
                   /\ pc' = "idle"
                   /\ n_generators' = n
                   /\ n_discriminators' = m
                   /\ gen_variables' = InitGenVariables(n)
                   /\ discrim_variables' = InitDiscrimVariables(m)
                   /\ gen_updates' = [i \in 0..(n - 1) |-> 0]
                   /\ discrim_updates' = [i \in 0..(m - 1) |-> 0]
                   /\ UNCHANGED << forward_calls, last_forward, prev_alpha,
                                   self_global_step, restores >>
    /\ UNCHANGED << overridden, predictVars, logVars, generator_steps,
                    checkpoint_interval, restore, gen_train_fraction,
                    discrim_average_steps, gen_average_steps, global_step,
                    inputs, feed_dict >>

NextConstruct == GANModelInit

SpecConstruct == InitConstruct /\ [][NextConstruct]_vars

NextPredict ==
    \/ PredictGanGenerator
    \/ PredictAgain

SpecPredict == Init /\ [][NextPredict]_vars

\* ------------------------------------------------------------ properties
DiscrimLoss == "discrim_loss_fn_wrapper"
GenLoss == "gen_loss_fn_wrapper"

\* floor(k * r) for the decimal value r.num / r.den
FloorTimes(k, r) == (k * r.num) \div r.den

\* r is the double its literal names and a multiple of 2^-28
Dyadic(r) == r.lo = 0 /\ r.hi * r.den = r.num * Limb

\* C1: every batch yielded gets exactly one discriminator optimization step:
\* the fit_generator calls with the discriminator's loss, and the updates of
\* every discriminator, number as many as the batches yielded, whatever
\* generator_steps and checkpoint_interval are.
C1_OneDiscriminatorStepPerBatch ==
    /\ discrim_calls = batches_yielded
    /\ \A i \in DOMAIN discrim_updates : discrim_updates[i] = batches_yielded
    /\ forward_calls = batches_yielded + gen_calls

C1_Witness ==
    /\ pc = "loop"
    /\ batches_yielded = 3
    /\ discrim_calls = 3
    /\ gen_calls = 4
    /\ checkpoint_interval = 2

\* C2 as stated: after every batch the generator steps performed number
\* floor(k * generator_steps), the carried fraction is in [0, 1), and a
\* generator_steps <= 0 never trains the generator.
C2_FloorOfSteps ==
    pc = "loop" =>
        /\ gen_train_fraction.hi < Limb
        /\ FPositive(generator_steps) =>
              gen_calls = FloorTimes(batches_yielded, generator_steps)
        /\ ~FPositive(generator_steps) => gen_calls = 0

\* C2 amended: the count is floor(k * generator_steps) when generator_steps
\* is a multiple of 2^-28 (2.0, 1.5, 0.5), whose running sum is exact; the
\* carried fraction is in [0, 1) after every batch for every generator_steps,
\* and a generator_steps <= 0 never trains the generator.
C2_FloorOfExactSteps ==
    /\ pc = "loop" =>
          /\ gen_train_fraction.hi < Limb
          /\ (FPositive(generator_steps) /\ Dyadic(generator_steps)) =>
                gen_calls = FloorTimes(batches_yielded, generator_steps)
    /\ ~FPositive(generator_steps) =>
          gen_calls = 0 /\ gen_train_fraction = FZero

C2_Witness ==
    /\ pc = "loop"
    /\ generator_steps.num = 3 /\ generator_steps.den = 2
    /\ batches_yielded = 3
    /\ gen_calls = 4
    /\ gen_train_fraction = [hi |-> 134217728, lo |-> 0]

GenKinds == {"generator", "gen_alpha", "discrim_alpha"}
DiscrimKinds == {"discriminator", "gen_alpha", "discrim_alpha"}
KindsIn(variables) == {variables[k].kind : k \in 1..Len(variables)}

\* C3: discrim_variables, and the list handed to a discriminator step, hold
\* discriminator and mixture-weight parameters only; gen_variables, and the
\* list handed to a generator step, hold generator and mixture-weight
\* parameters only; so each generator has been updated once per generator
\* step and each discriminator once per discriminator step, and never by a
\* step of the other kind.
C3_StepsUpdateTheirOwnNets ==
    /\ KindsIn(gen_variables) \subseteq GenKinds
    /\ KindsIn(discrim_variables) \subseteq DiscrimKinds
    /\ last_call.loss = DiscrimLoss => KindsIn(last_call.variables) \subseteq DiscrimKinds
    /\ last_call.loss = GenLoss => KindsIn(last_call.variables) \subseteq GenKinds
    /\ \A i \in DOMAIN gen_updates : gen_updates[i] = gen_calls
    /\ \A i \in DOMAIN discrim_updates : discrim_updates[i] = discrim_calls

C3_Witness ==
    /\ n_generators = 2 /\ n_discriminators = 2
    /\ last_call.loss = GenLoss
    /\ "gen_alpha" \in KindsIn(last_call.variables)
    /\ gen_calls = 3 /\ discrim_calls = 2
    /\ gen_updates[1] = 3 /\ discrim_updates[1] = 2

\* C4 as stated: the data and conditional inputs handed to the discriminator
\* step of a batch are the values the batch supplies.
C4_DiscriminatorSeesTheBatch ==
    last_call.loss = DiscrimLoss =>
        /\ last_call.inputs.data = feed_dict.data
        /\ last_call.inputs.cond = feed_dict.cond

\* C5: with checkpoint_interval = c > 0 the loop saves a checkpoint right
\* after batch k exactly when k is a positive multiple of c, and resets its
\* per-interval counters then; with c = 0 fit_gan never saves; every inner
\* fit_generator call is made with checkpoint_interval = 0.
C5_CheckpointEveryInterval ==
    /\ last_call.checkpoint_interval = 0
    /\ checkpoint_interval = 0 => loop_saves = 0 /\ final_saves = 0
    /\ (pc = "loop" /\ batches_yielded > 0) =>
          /\ saved <=> (checkpoint_interval > 0
                        /\ batches_yielded % checkpoint_interval = 0)
          /\ saved => discrim_average_steps = 0 /\ gen_average_steps = 0
          /\ checkpoint_interval > 0 =>
                loop_saves = batches_yielded \div checkpoint_interval

C5_Witness ==
    /\ pc = "loop"
    /\ checkpoint_interval = 2
    /\ batches_yielded = 4
    /\ saved
    /\ loop_saves = 2

C5_WitnessDisabled ==
    /\ pc = "done"
    /\ checkpoint_interval = 0
    /\ batches_yielded = 3

\* C6: a restore is requested of the first discriminator call of a fit_gan
\* called with restore=True and of no other fit_generator call.
C6_RestoreOnlyBeforeFirstBatch ==
    /\ last_call.restore <=>
          (restore_arg /\ last_call.loss = DiscrimLoss
           /\ discrim_calls = 1 /\ gen_calls = 0)
    /\ restores = IF restore_arg /\ discrim_calls > 0 THEN 1 ELSE 0

C6_Witness ==
    /\ restore_arg
    /\ discrim_calls = 2
    /\ last_call.loss = DiscrimLoss
    /\ ~last_call.restore
    /\ restores = 1

\* C7 as stated: forward creates no parameter: the two variable lists are as
\* long as right after construction, and one call uses the mixture logits of
\* the call before it.
C7_ParametersCreatedOnce ==
    /\ Len(gen_variables) = n_generators * NetParams
    /\ Len(discrim_variables) = n_discriminators * NetParams
    /\ (forward_calls >= 2 /\ last_forward.mixture) =>
          last_forward.gen_alpha = prev_alpha

\* C8: with one generator and one discriminator forward returns the one
\* generator loss and the one discriminator loss, unweighted and without an
\* entropy term, and adds nothing to the variable lists.
C8_SinglePairPassesThrough ==
    (n_generators = 1 /\ n_discriminators = 1 /\ forward_calls > 0) =>
        /\ last_forward.total_gen_loss =
              [terms |-> << [loss |-> last_forward.gen_losses[1],
                             weighted |-> FALSE, weight |-> <<1, 1>>] >>,
               entropy |-> FALSE]
        /\ last_forward.total_discrim_loss =
              [terms |-> << [loss |-> last_forward.discrim_losses[1],
                             weighted |-> FALSE, weight |-> <<1, 1>>] >>,
               entropy |-> FALSE]
        /\ gen_variables = InitGenVariables(1)
        /\ discrim_variables = InitDiscrimVariables(1)

C8_Witness ==
    /\ n_generators = 1 /\ n_discriminators = 1
    /\ forward_calls = 3
    /\ last_call.loss = GenLoss

C9_WitnessOneGenerator ==
    /\ n_generators = 1 /\ n_discriminators = 2
    /\ forward_calls > 0
    /\ last_forward.weight_products = << <<1, 2>>, <<1, 2>> >>

\* C10 as stated: explicit inputs override batch_size, given noise is used
\* unchanged, and generators[generator_index] alone produces the output.
C10_NoiseUsedUnchanged ==
    last_predict.calls > 0 =>
        /\ last_predict.pred.generator = last_predict.generator_index
        /\ last_predict.noise_given =>
              /\ last_predict.pred.samples = Len(last_predict.noise_input)
              /\ ~last_predict.drew
              /\ last_predict.fed[1] = last_predict.noise_input

\* C10 amended: explicit inputs override batch_size: given noise fixes the
\* number of samples and is fed to the generator after conversion to
\* float32, no noise being drawn; without noise a non-empty conditional_inputs
\* fixes the number of samples and fresh noise of that size is drawn; only
\* without both is batch_size used; generators[generator_index] alone
\* produces the output.
C10_ExplicitInputsOverrideBatchSize ==
    last_predict.calls > 0 =>
        LET p == last_predict IN
        /\ p.pred.generator = p.generator_index
        /\ p.noise_given =>
              /\ p.pred.samples = Len(p.noise_input)
              /\ ~p.drew
              /\ p.fed[1] = AsType32(p.noise_input)
        /\ (~p.noise_given /\ Len(p.conditional_inputs) > 0) =>
              /\ p.pred.samples = Len(p.conditional_inputs[1])
              /\ p.drew
              /\ Len(p.drawn) = Len(p.conditional_inputs[1])
              /\ p.fed[1] = AsType32(p.drawn)
        /\ (~p.noise_given /\ Len(p.conditional_inputs) = 0) =>
              /\ p.pred.samples = p.batch_size
              /\ p.drew
              /\ Len(p.drawn) = p.batch_size

C10_Witness ==
    /\ last_predict.calls > 0
    /\ last_predict.noise_given
    /\ last_predict.batch_size = 1
    /\ last_predict.noise_input = <<33554433, 33554436>>
    /\ last_predict.fed[1] = <<33554432, 33554436>>
    /\ last_predict.pred.samples = 2

C10_WitnessConditional ==
    /\ last_predict.calls > 0
    /\ ~last_predict.noise_given
    /\ last_predict.batch_size = 1
    /\ Len(last_predict.conditional_inputs) = 1
    /\ Len(last_predict.conditional_inputs[1]) = 2
    /\ last_predict.pred.samples = 2

\* C13: every optimization step has a noise batch of its own: get_noise_batch
\* has been called once per fit_generator call, each call gets the batch just
\* drawn, and a generator step is handed the data and conditional inputs of
\* the step before it in the batch, hence those of the batch's discriminator
\* step.
C13_FreshNoiseSameData ==
    [][/\ noise_draws' = discrim_calls' + gen_calls'
       /\ (discrim_calls' + gen_calls' > discrim_calls + gen_calls) =>
             /\ noise_draws' = noise_draws + 1
             /\ last_call'.inputs.noise = noise_draws'
             /\ last_call'.inputs.noise > last_call.inputs.noise
       /\ gen_calls' > gen_calls =>
             /\ last_call.loss \in {DiscrimLoss, GenLoss}
             /\ last_call'.inputs.data = last_call.inputs.data
             /\ last_call'.inputs.cond = last_call.inputs.cond]_vars

C13_Witness ==
    /\ batches_yielded = 1
    /\ last_call.loss = GenLoss
    /\ gen_calls = 2
    /\ noise_draws = 3
    /\ last_call.inputs.noise = 3
    /\ last_call.inputs.data = "x1"

\* C14: the global step counts batches, not fit_generator calls: while a
\* batch is processed the step recorded at its start is the number of batches
\* before it, and between batches the global step is the number of batches
\* processed, whatever generator_steps is and whatever step a restore loaded.
C14_GlobalStepCountsBatches ==
    /\ pc = "gen" => global_step = batches_yielded - 1
    /\ pc \in {"loop", "done"} => self_global_step = batches_yielded

C14_Witness ==
    /\ pc = "loop"
    /\ restore_arg
    /\ restores = 1
    /\ generator_steps.num = 2 /\ generator_steps.den = 1
    /\ batches_yielded = 3
    /\ gen_calls = 6
    /\ self_global_step = 3

\* C15: in the MIX+GAN branch entry i * n_generators + j of gen_losses and of
\* discrim_losses is the loss of discriminator i on generator j (and, for
\* discrim_losses, on the training data), its term in either total carries
\* the weight discrim_weights[i] * gen_weights[j], the generator's total has
\* no entropy term and the discriminator's has one.
C15_LossesAndWeightsAligned ==
    (forward_calls > 0 /\ last_forward.mixture) =>
        LET f == last_forward
            n == n_generators
            m == n_discriminators
        IN  /\ Len(f.gen_losses) = n * m
            /\ Len(f.discrim_losses) = n * m
            /\ Len(f.total_gen_loss.terms) = n * m
            /\ Len(f.total_discrim_loss.terms) = n * m
            /\ ~f.total_gen_loss.entropy
            /\ f.total_discrim_loss.entropy
            /\ \A i \in 0..(m - 1), j \in 0..(n - 1) :
                  LET k == (i * n) + j + 1
                      w == RMul(f.discrim_weights[i + 1], f.gen_weights[j + 1])
                      on_gen == [disc |-> i, real |-> FALSE, gen |-> j]
                      on_data == [disc |-> i, real |-> TRUE, gen |-> 0]
                  IN  /\ f.gen_losses[k] =
                            [loss |-> "generator", train |-> on_gen,
                             gen |-> on_gen]
                      /\ f.discrim_losses[k] =
                            [loss |-> "discriminator", train |-> on_data,
                             gen |-> on_gen]
                      /\ f.total_gen_loss.terms[k] =
                            [loss |-> f.gen_losses[k], weighted |-> TRUE,
                             weight |-> w]
                      /\ f.total_discrim_loss.terms[k] =
                            [loss |-> f.discrim_losses[k], weighted |-> TRUE,
                             weight |-> w]

C15_Witness ==
    /\ n_generators = 2 /\ n_discriminators = 2
    /\ forward_calls > 0
    /\ last_forward.gen_losses[2].gen = [disc |-> 0, real |-> FALSE, gen |-> 1]
    /\ last_forward.gen_losses[3].gen = [disc |-> 1, real |-> FALSE, gen |-> 0]
    /\ last_forward.total_discrim_loss.terms[3].weight = <<1, 4>>

C11_WitnessFreshNoise ==
    /\ prev_predict.calls = 1
    /\ ~last_predict.noise_given
    /\ last_predict.pred # prev_predict.pred

\* The methods C12 names as required
C12_Required == Methods \ {"get_conditional_input_shapes"}

C12_WitnessNoConditional ==
    /\ pc = "idle"
    /\ overridden = C12_Required
    /\ construction.torch_model_init
    /\ construction.n_conditional = 0
    /\ n_generators = 2

====
